---- MODULE Spec2Model ----
(***************************************************************************)
(* Synesthetic stock radar: the physics engine of stock_physics.py         *)
(* (property mapping, position initialisation, attraction, integration),   *)
(* specification Spec; the snapshot cache of stock_api.py and the two data *)
(* callbacks of app.py (fetch_data, render_content), specifications SpecApi *)
(* and SpecApp.                                                            *)
(*                                                                         *)
(* Numbers.  The program computes in float64.  Here every real quantity is *)
(* a fixed-point number: the integer n stands for n / Scale, and a product *)
(* or quotient is rounded to the nearest representable value, as a float   *)
(* operation is (the grid is coarser, the rounding is of the same kind:    *)
(* monotone and symmetric about zero).  0.98 is 980, 0.7 is 700, 100 is    *)
(* 100000.                                                                  *)
(***************************************************************************)
EXTENDS Integers, Sequences, FiniteSets, TLC

VARIABLES
    df,     \* the entity collection (a DataFrame): a sequence of rows
    pc,     \* "raw" | "props" | "placed" | "error": how far the pipeline got
    ops,    \* number of apply_attraction / update_positions calls so far
    call,   \* the last call: its name and its arguments
    prev,   \* the collection that call was given
    columns,\* the column labels of df (a DataFrame has them even with no rows)
    now,    \* time.time(), in seconds
    cache,  \* _cache and _cache_timestamp under the key "market_snapshot"
    request,\* the last fetch_market_snapshot call: its arguments and its return
    store,  \* the data of dcc.Store 'stock-data-store'
    base,   \* the frame fetch_data serialised into the store
    view,   \* the children of 'tab-content': the kind render_content last returned
    renders \* the frames the radar tab has drawn since the store was written

PipelineVars == <<df, pc, ops, call, prev, columns>>

AppVars == <<now, cache, request, store, base, view, renders>>

vars == <<df, pc, ops, call, prev, columns,
          now, cache, request, store, base, view, renders>>

----------------------------------------------------------------------------
(* Bounds of the model *)

\* The number of apply_attraction / update_positions calls in one run.
MaxOps == 4

\* The number of rows in a collection.
MaxEntities == 3

----------------------------------------------------------------------------
(* Fixed-point arithmetic *)

Scale == 10 * 10 * 10

Abs(a) == IF a < 0 THEN -a ELSE a

\* p / q rounded to the nearest integer, halves away from zero.
RoundDiv(p, q) ==
    LET m == (2 * Abs(p) + Abs(q)) \div (2 * Abs(q))
    IN  IF (p < 0) = (q < 0) THEN m ELSE -m

Mul(a, b) == RoundDiv(a * b, Scale)

Div(a, b) == RoundDiv(a * Scale, b)

MinF(a, b) == IF a <= b THEN a ELSE b

MaxF(a, b) == IF a >= b THEN a ELSE b

\* min() and max() of a non-empty list of numbers.
ListMin(s) == CHOOSE m \in {s[i] : i \in DOMAIN s} : \A i \in DOMAIN s : m <= s[i]

ListMax(s) == CHOOSE m \in {s[i] : i \in DOMAIN s} : \A i \in DOMAIN s : m >= s[i]

RECURSIVE SumSeq(_)
SumSeq(s) == IF s = <<>> THEN 0 ELSE Head(s) + SumSeq(Tail(s))

----------------------------------------------------------------------------
(* RangeMapper *)

normalize(value, min_val, max_val, target_min, target_max) ==
    IF max_val = min_val
    THEN target_min
    ELSE LET normalized == Div(value - min_val, max_val - min_val)
         IN  target_min + Mul(normalized, target_max - target_min)

----------------------------------------------------------------------------
(* PropertyMapper *)

\* The (hue, saturation, lightness) of the hsl(...) string.
get_stock_color(change_pct, rule_of_40) ==
    LET hue == IF change_pct >= 3000 THEN 0
               ELSE IF change_pct >= 1000 THEN 30
               ELSE IF change_pct >= 0 THEN 50
               ELSE IF change_pct >= -1000 THEN 180
               ELSE IF change_pct >= -3000 THEN 200
               ELSE 220
        saturation == MinF(100000, MaxF(40000, 50000 + Div(Abs(rule_of_40), 2000)))
        lightness == 60
    IN  <<hue, saturation, lightness>>

\* get_glow_intensity with the 40..80 segment as steep as the 0..40 one.
get_glow_intensity_steep(rule_of_40) ==
    IF rule_of_40 >= 80000 THEN 1000
    ELSE IF rule_of_40 >= 40000 THEN 500 + Div(rule_of_40 - 40000, 40000)
    ELSE IF rule_of_40 >= 0 THEN 200 + Mul(Div(rule_of_40, 40000), 300)
    ELSE 100

get_glow_intensity(rule_of_40) ==
    IF rule_of_40 >= 80000 THEN 1000
    ELSE IF rule_of_40 >= 40000 THEN 500 + Div(rule_of_40 - 40000, 80000)
    ELSE IF rule_of_40 >= 0 THEN 200 + Mul(Div(rule_of_40, 40000), 300)
    ELSE 100

\* math.log10 on the arguments the market caps of the roster give it
\* (1, 10, 100 and 1000); a non-positive argument is a ValueError.
Log10Raises(v) == v <= 0

Log10(v) ==
    CASE v = 1000 -> 0
      [] v = 10000 -> 1000
      [] v = 100000 -> 2000
      [] v = 1000000 -> 3000

\* get_bubble_size raises when math.log10 does.
get_bubble_size_raises(market_cap, all_market_caps) ==
    /\ market_cap > 0
    /\ all_market_caps # <<>>
    /\ \/ Log10Raises(ListMin(all_market_caps) + 1000)
       \/ Log10Raises(ListMax(all_market_caps) + 1000)

\* get_bubble_size with the short-circuit taken for negative caps only.
get_bubble_size_strict(market_cap, all_market_caps) ==
    IF market_cap < 0
    THEN 5000
    ELSE LET log_cap == Log10(market_cap + 1000)
             min_log == IF all_market_caps # <<>>
                        THEN Log10(ListMin(all_market_caps) + 1000) ELSE log_cap
             max_log == IF all_market_caps # <<>>
                        THEN Log10(ListMax(all_market_caps) + 1000) ELSE log_cap
         IN  normalize(log_cap, min_log, max_log, 10000, 60000)

get_bubble_size(market_cap, all_market_caps) ==
    IF market_cap <= 0
    THEN 5000
    ELSE LET log_cap == Log10(market_cap + 1000)
             min_log == IF all_market_caps # <<>>
                        THEN Log10(ListMin(all_market_caps) + 1000) ELSE log_cap
             max_log == IF all_market_caps # <<>>
                        THEN Log10(ListMax(all_market_caps) + 1000) ELSE log_cap
         IN  normalize(log_cap, min_log, max_log, 10000, 60000)

get_pulse_speed(volume, all_volumes) ==
    IF all_volumes = <<>> \/ volume <= 0
    THEN 1000
    ELSE normalize(volume, ListMin(all_volumes), ListMax(all_volumes), 500, 3000)

\* get_opacity without the floor of its last branch.
get_opacity_no_floor(debt_to_equity) ==
    IF debt_to_equity <= 0 THEN 1000
    ELSE IF debt_to_equity <= 50000 THEN 1000
    ELSE IF debt_to_equity <= 150000
         THEN 900 - Mul(Div(debt_to_equity - 50000, 100000), 300)
    ELSE 600 - Mul(Div(debt_to_equity - 150000, 200000), 200)

get_opacity(debt_to_equity) ==
    IF debt_to_equity <= 0 THEN 1000
    ELSE IF debt_to_equity <= 50000 THEN 1000
    ELSE IF debt_to_equity <= 150000
         THEN 900 - Mul(Div(debt_to_equity - 50000, 100000), 300)
    ELSE MaxF(400, 600 - Mul(Div(debt_to_equity - 150000, 200000), 200))

\* cos and sin of 45 degrees are 0.7071..., of -135 degrees -0.7071...
get_velocity_vector(revenue_growth, momentum) ==
    LET speed == Div(Abs(revenue_growth), 20000)
        cs == IF revenue_growth >= 0 THEN 707 ELSE -707
        vx == Mul(speed, cs)
        vy == Mul(speed, cs) + Div(momentum, 100000)
    IN  <<vx, vy>>

\* get_elasticity without the cap at 1.0.
get_elasticity_uncapped(volatility) ==
    IF volatility <= 0
    THEN 500
    ELSE 300 + Div(volatility, 100000)

get_elasticity(volatility) ==
    IF volatility <= 0
    THEN 500
    ELSE MinF(1000, 300 + Div(volatility, 100000))

----------------------------------------------------------------------------
(* The collections *)

\* The rows a snapshot is made of: three in-domain rows and two out-of-domain
\* rows (negative and zero market cap and volume), carrying between them the
\* reference inputs of the mappers.  Market caps are one less than a power of
\* ten, so that log10(market_cap + 1) is exact.
Roster ==
    << [ticker |-> "AAPL", change_pct |-> 2500, rule_of_40 |-> 40000,
        market_cap |-> 999000, volume |-> 50000, debt_to_equity |-> 50000,
        volatility |-> 25000, revenue_growth |-> 8000, month_change |-> 5000,
        operating_margin |-> 30000],
       [ticker |-> "TSLA", change_pct |-> -3200, rule_of_40 |-> 0,
        market_cap |-> 9000, volume |-> 120000, debt_to_equity |-> 150000,
        volatility |-> 65000, revenue_growth |-> 45000, month_change |-> -10000,
        operating_margin |-> -5000],
       [ticker |-> "NVDA", change_pct |-> 5100, rule_of_40 |-> 80000,
        market_cap |-> 99000, volume |-> 30000, debt_to_equity |-> 300000,
        volatility |-> 90000, revenue_growth |-> 60000, month_change |-> 15000,
        operating_margin |-> 55000],
       [ticker |-> "RIVN", change_pct |-> -500, rule_of_40 |-> -1000,
        market_cap |-> -5000, volume |-> -3000, debt_to_equity |-> 0,
        volatility |-> 0, revenue_growth |-> -20000, month_change |-> 0,
        operating_margin |-> 10000],
       [ticker |-> "LCID", change_pct |-> 0, rule_of_40 |-> -1000,
        market_cap |-> 0, volume |-> 0, debt_to_equity |-> 1000000,
        volatility |-> -4000, revenue_growth |-> 8000, month_change |-> -2000,
        operating_margin |-> 30000] >>

\* The rows of Roster with their index in S, in roster order.
Pick(S) ==
    [k \in 1..Cardinality(S) |->
        Roster[CHOOSE i \in S : Cardinality({j \in S : j < i}) = k - 1]]

Collections ==
    {Pick(S) : S \in {T \in SUBSET (1..Len(Roster)) : Cardinality(T) <= MaxEntities}}

Column(d, c) == [i \in 1..Len(d) |-> d[i][c]]

\* call before any call; mask is the attractor set apply_attraction computed.
NoCall == [name |-> "", mode |-> "", strength |-> 0, mask |-> {},
           time_delta |-> 0, bounds |-> <<0, 0, 0, 0>>]

\* The columns of a snapshot: the fields of its records.
RawColumns == DOMAIN Roster[1]

\* The column labels a collection can arrive with.  pd.DataFrame(stocks_data)
\* takes them from the records, so a snapshot of no records has none; a
\* snapshot filtered down to no rows (get_sector_stocks) keeps them all.
SnapshotColumns(d) == IF d = <<>> THEN {{}, RawColumns} ELSE {RawColumns}

\* tickers=None, and a list of tickers.
TickersNone == [given |-> FALSE, list |-> <<>>]

TickerList(l) == [given |-> TRUE, list |-> l]

\* _cache = {} and _cache_timestamp = {}.
NoCache == [set |-> FALSE, df |-> <<>>, columns |-> {}, timestamp |-> 0]

NoRequest == [set |-> FALSE, tickers |-> TickersNone, max_stocks |-> 0, df |-> <<>>]

\* dcc.Store(id='stock-data-store'): no data.
NoStore == [set |-> FALSE, json |-> <<>>]

NoBase == [set |-> FALSE, df |-> <<>>]

\* html.Div(id='tab-content'): no children.
NoView == "none"

\* The modules are imported and the layout is built; no callback has run.
AppInit ==
    /\ now = 0
    /\ cache = NoCache
    /\ request = NoRequest
    /\ store = NoStore
    /\ base = NoBase
    /\ view = NoView
    /\ renders = <<>>

Init ==
    /\ AppInit
    /\ df \in Collections
    /\ columns \in SnapshotColumns(df)
    /\ pc = "raw"
    /\ ops = 0
    /\ call = NoCall
    /\ prev = <<>>

----------------------------------------------------------------------------
(* calculate_bubble_properties *)

bubble_properties(row, all_caps, all_volumes) ==
    LET velocities == get_velocity_vector(row.revenue_growth, row.month_change)
    IN  [color |-> get_stock_color(row.change_pct, row.rule_of_40),
         size |-> get_bubble_size(row.market_cap, all_caps),
         glow |-> get_glow_intensity(row.rule_of_40),
         opacity |-> get_opacity(row.debt_to_equity),
         pulse_speed |-> get_pulse_speed(row.volume, all_volumes),
         elasticity |-> get_elasticity(row.volatility),
         vx |-> velocities[1],
         vy |-> velocities[2]]

calculate_bubble_properties_raises(d) ==
    \E i \in 1..Len(d) : get_bubble_size_raises(d[i].market_cap, Column(d, "market_cap"))

\* df['market_cap'] of line 162 is a KeyError when the frame has no such
\* column; it is the first column the function reads.
calculate_bubble_properties_key_error(cols) == "market_cap" \notin cols

PropertyColumns ==
    {"color", "size", "glow", "opacity", "pulse_speed", "elasticity", "vx", "vy"}

calculate_bubble_properties(d) ==
    LET all_caps == Column(d, "market_cap")
        all_volumes == Column(d, "volume")
    IN  [i \in 1..Len(d) |-> d[i] @@ bubble_properties(d[i], all_caps, all_volumes)]

CalculateBubbleProperties ==
    /\ pc = "raw"
    /\ IF \/ calculate_bubble_properties_key_error(columns)
          \/ calculate_bubble_properties_raises(df)
       THEN /\ pc' = "error"
            /\ df' = df
            /\ columns' = columns
       ELSE /\ pc' = "props"
            /\ df' = calculate_bubble_properties(df)
            /\ columns' = columns \cup PropertyColumns
    /\ call' = [NoCall EXCEPT !.name = "calculate_bubble_properties"]
    /\ prev' = df
    /\ ops' = ops
    /\ UNCHANGED AppVars

----------------------------------------------------------------------------
(* initialize_positions *)

\* np.random.uniform(margin, width - margin): the two ends of the range.
UniformDraws(low, high) == {low, high}

\* The (x, y) one row may draw: the corners (low, high) and (high, low) of
\* the inset square, enough to put rows together and apart on both axes.
PositionDraws(width, height) ==
    LET margin == 10000
        xs == UniformDraws(margin, width - margin)
        ys == UniformDraws(margin, height - margin)
    IN  {p \in xs \X ys : (p[1] = margin) # (p[2] = margin)}

initialize_positions(d, pos) ==
    [i \in 1..Len(d) |-> d[i] @@ [x |-> pos[i][1], y |-> pos[i][2]]]

InitializePositions ==
    /\ pc = "props"
    /\ \E pos \in [1..Len(df) -> PositionDraws(100000, 100000)] :
          df' = initialize_positions(df, pos)
    /\ columns' = columns \cup {"x", "y"}
    /\ pc' = "placed"
    /\ call' = [NoCall EXCEPT !.name = "initialize_positions"]
    /\ prev' = df
    /\ ops' = ops
    /\ UNCHANGED AppVars

----------------------------------------------------------------------------
(* apply_attraction *)

Modes == {"value", "growth", "profit", "size", "none"}

Strengths == {30}

\* The column a mode weighs by; Unrecognized for the final else.
Unrecognized == "unrecognized"

\* weight_column falling back to the default mode instead of returning.
weight_column_default_value(mode) ==
    IF mode = "growth" THEN "revenue_growth"
    ELSE IF mode = "profit" THEN "operating_margin"
    ELSE IF mode = "size" THEN "market_cap"
    ELSE "rule_of_40"

weight_column(mode) ==
    IF mode = "value" THEN "rule_of_40"
    ELSE IF mode = "growth" THEN "revenue_growth"
    ELSE IF mode = "profit" THEN "operating_margin"
    ELSE IF mode = "size" THEN "market_cap"
    ELSE Unrecognized

\* Weights by rank instead of by value, weights.rank(method='first', pct=True):
\* the number of rows that are smaller, or equal and not later, over the
\* number of rows.
normalized_weights_by_rank(d, column) ==
    LET raw == Column(d, column)
    IN  [i \in 1..Len(d) |->
            Div(Cardinality({j \in 1..Len(d) :
                                raw[j] < raw[i] \/ (raw[j] = raw[i] /\ j <= i)}) * Scale,
                Len(d) * Scale)]

\* (weights - weights.min()) / (weights.max() - weights.min() + 0.001)
normalized_weights(d, column) ==
    LET raw == Column(d, column)
    IN  [i \in 1..Len(d) |->
            Div(raw[i] - ListMin(raw), ListMax(raw) - ListMin(raw) + 1)]

\* high_value_mask, as the set of row indices it selects.
high_value_mask(weights) == {i \in DOMAIN weights : weights[i] > 700}

\* The plain mean of the attractors' positions, df.loc[mask, c].mean().
center_of_mass_unweighted(d, c, weights, mask) ==
    Div(SumSeq([i \in 1..Len(d) |-> IF i \in mask THEN d[i][c] ELSE 0]),
        Cardinality(mask) * Scale)

\* (df.loc[mask, c] * weights[mask]).sum() / weights[mask].sum()
center_of_mass(d, c, weights, mask) ==
    Div(SumSeq([i \in 1..Len(d) |-> IF i \in mask THEN Mul(d[i][c], weights[i]) ELSE 0]),
        SumSeq([i \in 1..Len(d) |-> IF i \in mask THEN weights[i] ELSE 0]))

pull(center, position, strength, weight) ==
    Mul(Mul(center - position, strength), Scale - weight)

\* The attractor set of a call: empty when the mode is not recognized, and for
\* an empty collection (min and max are NaN, and no comparison with NaN holds).
attractor_set(d, mode) ==
    IF weight_column(mode) = Unrecognized \/ Len(d) = 0
    THEN {}
    ELSE high_value_mask(normalized_weights(d, weight_column(mode)))

apply_attraction(d, mode, strength) ==
    IF weight_column(mode) = Unrecognized \/ Len(d) = 0
    THEN d
    ELSE LET weights == normalized_weights(d, weight_column(mode))
             mask == attractor_set(d, mode)
         IN  IF Cardinality(mask) > 0
             THEN LET center_x == center_of_mass(d, "x", weights, mask)
                      center_y == center_of_mass(d, "y", weights, mask)
                  IN  [i \in 1..Len(d) |->
                          [d[i] EXCEPT
                              !.vx = @ + pull(center_x, d[i].x, strength, weights[i]),
                              !.vy = @ + pull(center_y, d[i].y, strength, weights[i])]]
             ELSE d

ApplyAttraction ==
    /\ pc = "placed"
    /\ ops < MaxOps
    /\ call.name # "apply_attraction"
    /\ \E mode \in Modes, strength \in Strengths :
          /\ df' = apply_attraction(df, mode, strength)
          /\ call' = [NoCall EXCEPT !.name = "apply_attraction",
                                    !.mode = mode, !.strength = strength,
                                    !.mask = attractor_set(df, mode)]
    /\ prev' = df
    /\ ops' = ops + 1
    /\ pc' = pc
    /\ columns' = columns
    /\ UNCHANGED AppVars

----------------------------------------------------------------------------
(* update_positions *)

TimeDeltas == {0, 300, 20000}

BoundsChoices ==
    {<<5000, 95000, 5000, 95000>>, <<10000, 90000, 10000, 90000>>,
     <<20000, 80000, 20000, 80000>>}

\* update_axis with the upper clamp left out.
update_axis_no_upper_clamp(p, v, elasticity, time_delta, lo, hi) ==
    LET p1 == p + Mul(v, time_delta)
        v1 == IF p1 < lo THEN Mul(v, -elasticity) ELSE v
        p2 == IF p1 < lo THEN lo ELSE p1
        v2 == IF p2 > hi THEN Mul(v1, -elasticity) ELSE v1
    IN  <<p2, Mul(v2, 980)>>

\* update_axis with a bounce that only negates the velocity.
update_axis_full_bounce(p, v, elasticity, time_delta, lo, hi) ==
    LET p1 == p + Mul(v, time_delta)
        v1 == IF p1 < lo THEN -v ELSE v
        p2 == IF p1 < lo THEN lo ELSE p1
        v2 == IF p2 > hi THEN -v1 ELSE v1
        p3 == IF p2 > hi THEN hi ELSE p2
    IN  <<p3, Mul(v2, 980)>>

\* update_axis moving by the default time step whatever time_delta is.
update_axis_fixed_step(p, v, elasticity, time_delta, lo, hi) ==
    LET p1 == p + Mul(v, 100)
        v1 == IF p1 < lo THEN Mul(v, -elasticity) ELSE v
        p2 == IF p1 < lo THEN lo ELSE p1
        v2 == IF p2 > hi THEN Mul(v1, -elasticity) ELSE v1
        p3 == IF p2 > hi THEN hi ELSE p2
    IN  <<p3, Mul(v2, 980)>>

\* update_axis with the damping left out.
update_axis_no_damping(p, v, elasticity, time_delta, lo, hi) ==
    LET p1 == p + Mul(v, time_delta)
        v1 == IF p1 < lo THEN Mul(v, -elasticity) ELSE v
        p2 == IF p1 < lo THEN lo ELSE p1
        v2 == IF p2 > hi THEN Mul(v1, -elasticity) ELSE v1
        p3 == IF p2 > hi THEN hi ELSE p2
    IN  <<p3, v2>>

\* One axis of one row: the move, the bounce off the lower bound, the bounce
\* off the upper bound, the damping.  The result is <<position, velocity>>.
update_axis(p, v, elasticity, time_delta, lo, hi) ==
    LET p1 == p + Mul(v, time_delta)
        v1 == IF p1 < lo THEN Mul(v, -elasticity) ELSE v
        p2 == IF p1 < lo THEN lo ELSE p1
        v2 == IF p2 > hi THEN Mul(v1, -elasticity) ELSE v1
        p3 == IF p2 > hi THEN hi ELSE p2
    IN  <<p3, Mul(v2, 980)>>

update_positions(d, time_delta, bounds) ==
    [i \in 1..Len(d) |->
        LET ax == update_axis(d[i].x, d[i].vx, d[i].elasticity, time_delta,
                              bounds[1], bounds[2])
            ay == update_axis(d[i].y, d[i].vy, d[i].elasticity, time_delta,
                              bounds[3], bounds[4])
        IN  [d[i] EXCEPT !.x = ax[1], !.vx = ax[2], !.y = ay[1], !.vy = ay[2]]]

UpdatePositions ==
    /\ pc = "placed"
    /\ ops < MaxOps
    /\ call.name = "apply_attraction"
    /\ \E time_delta \in TimeDeltas, bounds \in BoundsChoices :
          /\ df' = update_positions(df, time_delta, bounds)
          /\ call' = [NoCall EXCEPT !.name = "update_positions",
                                    !.time_delta = time_delta, !.bounds = bounds]
    /\ prev' = df
    /\ ops' = ops + 1
    /\ pc' = pc
    /\ columns' = columns
    /\ UNCHANGED AppVars

----------------------------------------------------------------------------

Next ==
    \/ CalculateBubbleProperties
    \/ InitializePositions
    \/ ApplyAttraction
    \/ UpdatePositions

Spec == Init /\ [][Next]_vars

----------------------------------------------------------------------------
(* stock_api.py: the market snapshot and its cache *)

\* The clock may run this far.
MaxClock == 300

\* The number of radar frames drawn from one stored snapshot.
MaxRenders == 3

CACHE_DURATION == 300

\* The default ticker list: the tickers of the roster, in its order.
STOCK_TICKERS == [i \in 1..Len(Roster) |-> Roster[i].ticker]

\* tickers[:n]
Take(tickers, n) == SubSeq(tickers, 1, MinF(n, Len(tickers)))

\* The arguments of a call.
TickerArgs ==
    {TickersNone, TickerList(<<"TSLA">>), TickerList(<<"AAPL", "TSLA", "NVDA">>)}

MaxStocksArgs == {2, 50, 60}

\* The tickers the data provider fails for during one call; their except
\* branch skips them.
Outages == {{}, {"RIVN", "LCID"}, {Roster[i].ticker : i \in 1..Len(Roster)}}

\* The cached snapshot is still good at time t.
cache_fresh(c, t) == c.set /\ t - c.timestamp < CACHE_DURATION

\* The tickers a call that misses the cache goes through.
tickers_to_fetch(tickers, max_stocks) ==
    IF ~tickers.given THEN Take(STOCK_TICKERS, max_stocks) ELSE tickers.list

\* The record appended for a ticker.
stock_record(ticker) ==
    Roster[CHOOSE i \in 1..Len(Roster) : Roster[i].ticker = ticker]

\* stocks_data after the loop: one record per ticker that did not fail.
stocks_data(tickers, outage) ==
    LET fetched == SelectSeq(tickers, LAMBDA t : t \notin outage)
    IN  [i \in 1..Len(fetched) |-> stock_record(fetched[i])]

\* What fetch_market_snapshot returns: the frame, its columns, and the cache
\* it leaves.
fetch_market_snapshot(c, t, tickers, max_stocks, outage) ==
    IF cache_fresh(c, t)
    THEN [df |-> c.df, columns |-> c.columns, cache |-> c]
    ELSE LET d == stocks_data(tickers_to_fetch(tickers, max_stocks), outage)
             cols == IF d = <<>> THEN {} ELSE RawColumns
         IN  [df |-> d, columns |-> cols,
              cache |-> [set |-> TRUE, df |-> d, columns |-> cols, timestamp |-> t]]

\* Time passes.
Elapse ==
    /\ \E wait \in {150} :
          /\ now + wait <= MaxClock
          /\ now' = now + wait
    /\ UNCHANGED <<cache, request, store, base, view, renders>>
    /\ UNCHANGED PipelineVars

\* A call of fetch_market_snapshot(tickers, max_stocks).
FetchMarketSnapshot ==
    /\ \E tickers \in TickerArgs, max_stocks \in MaxStocksArgs, outage \in Outages :
          LET r == fetch_market_snapshot(cache, now, tickers, max_stocks, outage)
          IN  /\ cache' = r.cache
              /\ request' = [set |-> TRUE, tickers |-> tickers,
                             max_stocks |-> max_stocks, df |-> r.df]
    /\ UNCHANGED <<now, store, base, view, renders>>
    /\ UNCHANGED PipelineVars

ClearCache ==
    /\ cache' = NoCache
    /\ UNCHANGED <<now, request, store, base, view, renders>>
    /\ UNCHANGED PipelineVars

----------------------------------------------------------------------------
(* app.py: the data callbacks *)

\* df.to_json(): orient 'columns', a map from column label to a map from
\* index label (0, 1, ...) to value.  Numbers are written with 10 decimal
\* digits, more than a fixed-point number here has.
to_json(d, cols) == [c \in cols |-> [i \in 0..(Len(d) - 1) |-> d[i + 1][c]]]

\* pd.read_json: the index labels of the first column give the rows.
read_json(json) ==
    LET cols == DOMAIN json
        index == IF cols = {} THEN {} ELSE DOMAIN json[CHOOSE c \in cols : TRUE]
    IN  [i \in 1..Cardinality(index) |-> [c \in cols |-> json[c][i - 1]]]

\* The radar branch of render_content: the frame handed to
\* create_physics_radar.
radar_frame(data_json) ==
    update_positions(apply_attraction(read_json(data_json), "value", 30),
                     300, <<5000, 95000, 5000, 95000>>)

\* The callback of the refresh interval.  When a call in it raises, Dash
\* leaves the store as it is.
FetchData ==
    /\ \E outage \in Outages :
          LET r == fetch_market_snapshot(cache, now, TickersNone, 50, outage)
          IN  /\ cache' = r.cache
              /\ request' = [set |-> TRUE, tickers |-> TickersNone,
                             max_stocks |-> 50, df |-> r.df]
              /\ IF \/ calculate_bubble_properties_key_error(r.columns)
                    \/ calculate_bubble_properties_raises(r.df)
                 THEN UNCHANGED <<store, base, renders>>
                 ELSE \E pos \in [1..Len(r.df) -> PositionDraws(100000, 100000)] :
                         LET d == initialize_positions(
                                      calculate_bubble_properties(r.df), pos)
                         IN  /\ store' = [set |-> TRUE,
                                          json |-> to_json(d, r.columns \cup PropertyColumns
                                                                \cup {"x", "y"})]
                             /\ base' = [set |-> TRUE, df |-> d]
                             /\ renders' = <<>>
    /\ UNCHANGED <<now, view>>
    /\ UNCHANGED PipelineVars

Tabs == {"radar", "rule40", "learn"}

\* render_content keeping the frame it drew: the radar branch writes the
\* moved frame back to the store, so the next render starts from it.
RenderContentWriteBack ==
    /\ \E tab \in Tabs :
          IF tab = "learn"
          THEN /\ view' = "learn"
               /\ UNCHANGED <<renders, store>>
          ELSE IF ~store.set
          THEN /\ view' = "loading"
               /\ UNCHANGED <<renders, store>>
          ELSE IF tab = "radar"
          THEN /\ Len(renders) < MaxRenders
               /\ view' = "radar"
               /\ renders' = Append(renders, radar_frame(store.json))
               /\ store' = [set |-> TRUE,
                            json |-> to_json(radar_frame(store.json), DOMAIN store.json)]
          ELSE /\ view' = "rule40"
               /\ UNCHANGED <<renders, store>>
    /\ UNCHANGED <<now, cache, request, base>>
    /\ UNCHANGED PipelineVars

\* render_content(tab, data_json) with the data of the store.
RenderContent ==
    /\ \E tab \in Tabs :
          IF tab = "learn"
          THEN /\ view' = "learn"
               /\ renders' = renders
          ELSE IF ~store.set
          THEN /\ view' = "loading"
               /\ renders' = renders
          ELSE IF tab = "radar"
          THEN /\ Len(renders) < MaxRenders
               /\ view' = "radar"
               /\ renders' = Append(renders, radar_frame(store.json))
          ELSE /\ view' = "rule40"
               /\ renders' = renders
    /\ UNCHANGED <<now, cache, request, store, base>>
    /\ UNCHANGED PipelineVars

----------------------------------------------------------------------------

\* No pipeline call is in progress: the callbacks work on their own frames.
PipelineIdle ==
    /\ df = <<>>
    /\ columns = {}
    /\ pc = "raw"
    /\ ops = 0
    /\ call = NoCall
    /\ prev = <<>>

InitApp == AppInit /\ PipelineIdle

\* The snapshot interface on its own.
NextApi ==
    \/ Elapse
    \/ FetchMarketSnapshot
    \/ ClearCache

SpecApi == InitApp /\ [][NextApi]_vars

\* The running app: the refresh interval and the renders.
NextApp ==
    \/ Elapse
    \/ FetchData
    \/ RenderContent

SpecApp == InitApp /\ [][NextApp]_vars

----------------------------------------------------------------------------
(* The Integrator *)

Rows == 1..Len(df)

Updated == call.name = "update_positions"

XMin == call.bounds[1]
XMax == call.bounds[2]
YMin == call.bounds[3]
YMax == call.bounds[4]

\* C1: after every update_positions call every entity's x lies in
\* [xMin, xMax] and its y in [yMin, yMax], whatever the position, velocity,
\* elasticity, time step and bounds it was called with, and however many
\* apply_attraction + update_positions ticks came before.
C1_PositionWithinBounds ==
    Updated =>
        \A i \in Rows : /\ XMin <= df[i].x /\ df[i].x <= XMax
                        /\ YMin <= df[i].y /\ df[i].y <= YMax

\* C1's case: a second tick whose move carried an entity beyond xMax and
\* whose collection held an entity below yMin before the move.
C1_Witness ==
    /\ Updated
    /\ ops >= 4
    /\ \E i \in Rows : prev[i].x + Mul(prev[i].vx, call.time_delta) > XMax
    /\ \E i \in Rows : prev[i].y < YMin

\* An entity placed exactly at xMax with positive vx.
AtXMaxMovingRight(i) == prev[i].x = XMax /\ prev[i].vx > 0

\* Its move, with a positive time step, carries it beyond xMax.
CrossesXMax(i) ==
    /\ call.time_delta > 0
    /\ prev[i].x + Mul(prev[i].vx, call.time_delta) > XMax

\* C2 as stated, read in its favour (the time step is positive and the move
\* crosses the bound): an entity placed exactly at xMax with positive vx has,
\* after one update_positions call, x = xMax and vx = -vx*elasticity, and a
\* velocity magnitude no greater than before.
C2_BounceAsStated ==
    Updated =>
        \A i \in Rows :
            (AtXMaxMovingRight(i) /\ CrossesXMax(i)) =>
                /\ df[i].x = XMax
                /\ df[i].vx = Mul(prev[i].vx, -prev[i].elasticity)
                /\ Abs(df[i].vx) <= Abs(prev[i].vx)

\* C2 amended: an entity placed exactly at xMax with positive vx, whose move
\* vx*timeDelta (timeDelta > 0) carries it beyond xMax, has after the call
\* x = xMax and vx = -vx*elasticity*0.98 (the bounce, then the damping of the
\* same tick), and a velocity magnitude no greater than before.
C2_BounceThenDamping ==
    Updated =>
        \A i \in Rows :
            (AtXMaxMovingRight(i) /\ CrossesXMax(i)) =>
                /\ df[i].x = XMax
                /\ df[i].vx = Mul(Mul(prev[i].vx, -prev[i].elasticity), 980)
                /\ Abs(df[i].vx) <= Abs(prev[i].vx)

\* C2's case: an entity at xMax with positive vx was moved with a positive
\* time step, by an elasticity below 1.
C2_Witness ==
    /\ Updated
    /\ \E i \in Rows : /\ AtXMaxMovingRight(i)
                       /\ CrossesXMax(i)
                       /\ prev[i].elasticity < Scale

\* C3 as stated: update_positions with timeDelta = 0 leaves every entity's
\* position unchanged and multiplies both velocity components by 0.98.
C3_ZeroStepAsStated ==
    (Updated /\ call.time_delta = 0) =>
        \A i \in Rows : /\ df[i].x = prev[i].x
                        /\ df[i].y = prev[i].y
                        /\ df[i].vx = Mul(prev[i].vx, 980)
                        /\ df[i].vy = Mul(prev[i].vy, 980)

\* C3 amended: update_positions with timeDelta = 0 leaves unchanged every
\* coordinate that lies within its bounds, and multiplies the velocity
\* component of that axis by 0.98.
C3_ZeroStepWithinBounds ==
    (Updated /\ call.time_delta = 0) =>
        \A i \in Rows :
            /\ (XMin <= prev[i].x /\ prev[i].x <= XMax) =>
                  (df[i].x = prev[i].x /\ df[i].vx = Mul(prev[i].vx, 980))
            /\ (YMin <= prev[i].y /\ prev[i].y <= YMax) =>
                  (df[i].y = prev[i].y /\ df[i].vy = Mul(prev[i].vy, 980))

\* C3's case: a call with timeDelta = 0 on a collection with a moving entity
\* inside the bounds on both axes.
C3_Witness ==
    /\ Updated
    /\ call.time_delta = 0
    /\ \E i \in Rows : /\ XMin < prev[i].x /\ prev[i].x < XMax
                       /\ YMin < prev[i].y /\ prev[i].y < YMax
                       /\ prev[i].vx # 0 /\ prev[i].vy # 0

\* C4: after any update_positions call, |vx'| <= 0.98*|vx| and
\* |vy'| <= 0.98*|vy| for every entity, vx and vy being the velocity the call
\* was given, whether or not the entity bounced in that call.
C4_Damping ==
    Updated =>
        \A i \in Rows : /\ Abs(df[i].vx) <= Mul(980, Abs(prev[i].vx))
                        /\ Abs(df[i].vy) <= Mul(980, Abs(prev[i].vy))

\* C4's case: one call in which an entity bounced and another did not.
C4_Witness ==
    /\ Updated
    /\ \E i, j \in Rows :
          /\ prev[i].x + Mul(prev[i].vx, call.time_delta) > XMax
          /\ prev[i].vx # 0
          /\ prev[j].x + Mul(prev[j].vx, call.time_delta) \in XMin..XMax
          /\ prev[j].y + Mul(prev[j].vy, call.time_delta) \in YMin..YMax
          /\ prev[j].vx # 0

----------------------------------------------------------------------------
(* The PropertyMapper *)

Calculated == call.name = "calculate_bubble_properties"

\* The property columns are there: calculate_bubble_properties returned.
HasProperties == pc \in {"props", "placed"}

\* C5: calculate_bubble_properties does not fail on a collection holding an
\* entity with a negative market cap or a negative volume, alone or among
\* positive-valued entities: it returns, with size 5 for every non-positive
\* market cap and pulse speed 1.0 for every non-positive volume.
C5_OutOfDomainNeverFails ==
    ( /\ Calculated
      /\ \E i \in DOMAIN prev : prev[i].market_cap < 0 \/ prev[i].volume < 0 ) =>
        /\ pc # "error"
        /\ \A i \in Rows :
              /\ df[i].market_cap <= 0 => df[i].size = 5000
              /\ df[i].volume <= 0 => df[i].pulse_speed = 1000

\* C6: the size of an entity with positive market cap lies in [10, 60], and
\* the size of an entity with non-positive market cap is exactly 5.
C6_SizeRange ==
    HasProperties =>
        \A i \in Rows :
            /\ df[i].market_cap > 0 => (10000 <= df[i].size /\ df[i].size <= 60000)
            /\ df[i].market_cap <= 0 => df[i].size = 5000

\* C6's case: a collection with a zero market cap, the smallest positive
\* one at the size the zero cap's log sets, and the largest at 60.
C6_Witness ==
    /\ Calculated
    /\ pc = "props"
    /\ \E i, j, k \in Rows :
          /\ df[i].market_cap = 0 /\ df[i].size = 5000
          /\ df[j].market_cap > 0 /\ 10000 < df[j].size /\ df[j].size < 60000
          /\ df[k].market_cap > 0 /\ df[k].size = 60000

\* C7 as stated: opacity(0) = 1.0, opacity(50) = 1.0, opacity(150) = 0.6,
\* opacity(300) = 0.4 and opacity(1000) = 0.4.
C7_OpacityAsStated ==
    HasProperties =>
        \A i \in Rows :
            /\ df[i].debt_to_equity = 0 => df[i].opacity = 1000
            /\ df[i].debt_to_equity = 50000 => df[i].opacity = 1000
            /\ df[i].debt_to_equity = 150000 => df[i].opacity = 600
            /\ df[i].debt_to_equity = 300000 => df[i].opacity = 400
            /\ df[i].debt_to_equity = 1000000 => df[i].opacity = 400

\* C7 amended: opacity(0) = 1.0, opacity(50) = 1.0, opacity(150) = 0.6,
\* opacity(300) = 0.45 and opacity(1000) = 0.4 (the floor).
C7_OpacityReferenceValues ==
    HasProperties =>
        \A i \in Rows :
            /\ df[i].debt_to_equity = 0 => df[i].opacity = 1000
            /\ df[i].debt_to_equity = 50000 => df[i].opacity = 1000
            /\ df[i].debt_to_equity = 150000 => df[i].opacity = 600
            /\ df[i].debt_to_equity = 300000 => df[i].opacity = 450
            /\ df[i].debt_to_equity = 1000000 => df[i].opacity = 400

\* C7's case: the opacity of debt-to-equity 150, 300 and 1000 was computed.
C7_Witness ==
    /\ Calculated
    /\ pc = "props"
    /\ {150000, 300000, 1000000} \subseteq {df[i].debt_to_equity : i \in Rows}

\* C8: once calculate_bubble_properties has returned, and after any number
\* of apply_attraction / update_positions calls, every entity has glow in
\* [0.1, 1.0], opacity in [0.4, 1.0] and elasticity in [0.3, 1.0].
C8_PropertyRanges ==
    HasProperties =>
        \A i \in Rows :
            /\ 100 <= df[i].glow /\ df[i].glow <= 1000
            /\ 400 <= df[i].opacity /\ df[i].opacity <= 1000
            /\ 300 <= df[i].elasticity /\ df[i].elasticity <= 1000

\* C8's case: after two ticks, a collection with a negative Rule-of-40 score,
\* a debt-to-equity beyond the floor's and a volatility beyond the cap's.
C8_Witness ==
    /\ Updated
    /\ ops >= 4
    /\ \E i \in Rows : df[i].rule_of_40 < 0
    /\ \E i \in Rows : df[i].debt_to_equity > 350000
    /\ \E i \in Rows : df[i].volatility > 70000

----------------------------------------------------------------------------
(* The AttractionSolver *)

Attracted == call.name = "apply_attraction"

RecognizedModes == {"value", "growth", "profit", "size"}

\* C9: apply_attraction with a mode other than 'value', 'growth', 'profit'
\* or 'size' returns a collection equal to its input in every field, and
\* does not raise.
C9_UnrecognizedModeNoOp ==
    (Attracted /\ call.mode \notin RecognizedModes) =>
        (df = prev /\ pc = "placed")

\* C9's case: a call with an unrecognized mode on a collection that a call
\* with mode 'value' would have changed.
C9_Witness ==
    /\ Attracted
    /\ call.mode \notin RecognizedModes
    /\ attractor_set(prev, "value") # {}
    /\ \E i \in Rows : prev[i].x # prev[CHOOSE a \in attractor_set(prev, "value") : TRUE].x

\* Every entity has the same value of the metric the call's mode selects.
AllWeightsEqual ==
    \A i, j \in DOMAIN prev :
        prev[i][weight_column(call.mode)] = prev[j][weight_column(call.mode)]

\* C10: when every entity has the same value of the selected metric,
\* apply_attraction does not raise, and its attractor set is either empty or
\* the whole collection: the whole collection exactly when the constant
\* normalized weight exceeds 0.7.
C10_EqualWeights ==
    (Attracted /\ call.mode \in RecognizedModes /\ prev # <<>> /\ AllWeightsEqual) =>
        LET weight == normalized_weights(prev, weight_column(call.mode))[1]
        IN  /\ pc = "placed"
            /\ call.mask \in {{}, DOMAIN prev}
            /\ call.mask = DOMAIN prev <=> weight > 700

\* C10's case: a call on two or more entities with equal metric values.
C10_Witness ==
    /\ Attracted
    /\ call.mode \in RecognizedModes
    /\ Len(prev) >= 2
    /\ AllWeightsEqual

\* ---------------------------------------------------------------------
\* C11: collections with zero entities.

Components ==
    {"calculate_bubble_properties", "initialize_positions",
     "apply_attraction", "update_positions"}

\* The last call was one of the four components, on a collection with zero
\* entities.
GivenNoEntities == call.name \in Components /\ prev = <<>>

\* C11: every component (calculate_bubble_properties, initialize_positions,
\* apply_attraction, update_positions) given a collection with zero
\* entities returns an empty collection or acts as a no-op, without
\* raising.
C11_EmptyCollectionNeverRaises ==
    GivenNoEntities => (pc # "error" /\ df = <<>>)

\* ---------------------------------------------------------------------
\* C14: the glow mapping.

\* Rule-of-40 scores 0, 1, 2, ... 100: both segments, both breakpoints and
\* the plateau above 80.
GlowScores == {k * Scale : k \in 0..100}

\* C14: get_glow_intensity is monotonically non-decreasing in the
\* Rule-of-40 score for all scores >= 0, with glow(0) = 0.2,
\* glow(40) = 0.5, glow(80) = 1.0 and glow(-1) = 0.1.  Checked on the glow
\* column calculate_bubble_properties has just computed and on the mapping
\* over the scores 0..100.
C14_GlowMonotone ==
    (Calculated /\ pc = "props") =>
        /\ \A i \in Rows :
              /\ df[i].rule_of_40 = 0 => df[i].glow = 200
              /\ df[i].rule_of_40 = 40000 => df[i].glow = 500
              /\ df[i].rule_of_40 = 80000 => df[i].glow = 1000
              /\ df[i].rule_of_40 = -1000 => df[i].glow = 100
        /\ \A i, j \in Rows :
              (0 <= df[i].rule_of_40 /\ df[i].rule_of_40 <= df[j].rule_of_40)
                  => df[i].glow <= df[j].glow
        /\ \A a \in GlowScores :
              get_glow_intensity(a) <= get_glow_intensity(a + Scale)

\* C14's case: glow computed for a collection holding the scores 0, 40 and
\* 80, strictly increasing over them.
C14_Witness ==
    /\ Calculated
    /\ pc = "props"
    /\ \E i, j, k \in Rows :
          /\ df[i].rule_of_40 = 0
          /\ df[j].rule_of_40 = 40000
          /\ df[k].rule_of_40 = 80000
          /\ df[i].glow < df[j].glow
          /\ df[j].glow < df[k].glow

\* ---------------------------------------------------------------------
\* C15: what apply_attraction changes.

\* The weights of the last apply_attraction call, over the collection it was
\* given.
CallWeights == normalized_weights(prev, weight_column(call.mode))

\* The rows of that collection whose weight is above 0.7.
CallAttractors == {i \in 1..Len(prev) : CallWeights[i] > 700}

\* The weight-averaged position along coordinate c of the rows in
\* attractors.
WeightedCentroid(weights, attractors, c) ==
    Div(SumSeq([i \in 1..Len(prev) |->
                   IF i \in attractors THEN Mul(prev[i][c], weights[i]) ELSE 0]),
        SumSeq([i \in 1..Len(prev) |->
                   IF i \in attractors THEN weights[i] ELSE 0]))

\* (centroid - position) * strength * (1 - weight)
StatedPull(centroid, position, weight) ==
    Mul(Mul(centroid - position, call.strength), Scale - weight)

\* C15: for a recognized mode, apply_attraction changes only velocities: if
\* the attractor set is empty every velocity is unchanged; otherwise every
\* entity (attractors included) has exactly
\* (centroid - position) * strength * (1 - weight) added to its velocity,
\* where centroid is the weight-averaged position of the attractor set;
\* positions and all other fields are left unchanged in both cases.
C15_AttractionChangesOnlyVelocity ==
    (Attracted /\ call.mode \in RecognizedModes) =>
        LET raw == Column(prev, weight_column(call.mode))
            lowest == IF raw = <<>> THEN 0 ELSE ListMin(raw)
            highest == IF raw = <<>> THEN 0 ELSE ListMax(raw)
            weights == [i \in 1..Len(prev) |->
                           Div(raw[i] - lowest, highest - lowest + 1)]
            attractors == {i \in 1..Len(prev) : weights[i] > 700}
            centroid_x == WeightedCentroid(weights, attractors, "x")
            centroid_y == WeightedCentroid(weights, attractors, "y")
        IN  /\ pc = "placed"
            /\ Len(df) = Len(prev)
            /\ IF attractors = {}
               THEN df = prev
               ELSE \A i \in 1..Len(prev) :
                       df[i] = [prev[i] EXCEPT
                                   !.vx = prev[i].vx
                                          + StatedPull(centroid_x, prev[i].x, weights[i]),
                                   !.vy = prev[i].vy
                                          + StatedPull(centroid_y, prev[i].y, weights[i])]

\* C15's case: a recognized mode with two attractors of different weights at
\* different positions and a third entity outside the attractor set; the
\* velocity of that entity and of an attractor changed.
C15_Witness ==
    /\ Attracted
    /\ call.mode \in RecognizedModes
    /\ \E i, j \in CallAttractors :
          /\ CallWeights[i] # CallWeights[j]
          /\ prev[i].x # prev[j].x
          /\ prev[i].y # prev[j].y
    /\ \E k \in 1..Len(prev) :
          k \notin CallAttractors /\ df[k].vx # prev[k].vx /\ df[k].vy # prev[k].vy
    /\ \E i \in CallAttractors : df[i].vx # prev[i].vx /\ df[i].vy # prev[i].vy

\* ---------------------------------------------------------------------
\* C12: renders and the stored snapshot.

\* One apply_attraction step, then one update_positions step, with the
\* arguments render_content passes.
OneStep(d) ==
    update_positions(apply_attraction(d, "value", 30),
                     300, <<5000, 95000, 5000, 95000>>)

\* C12: a render request never changes the stored snapshot: each
\* render_content call on the radar tab applies exactly one apply_attraction
\* step followed by one update_positions step to the stored base
\* positions/velocities, so any number of repeated renders between two data
\* refreshes produce the identical single-step positions and velocities
\* (motion does not accumulate across renders).  The store always decodes to
\* the frame fetch_data last wrote, and every frame drawn since then is one
\* step away from that frame.
C12_RenderLeavesSnapshot ==
    IF base.set
    THEN /\ store.set
         /\ read_json(store.json) = base.df
         /\ \A i \in 1..Len(renders) : renders[i] = OneStep(base.df)
         /\ \A i, j \in 1..Len(renders) : renders[i] = renders[j]
    ELSE ~store.set /\ renders = <<>>

\* C12's case: the radar tab rendered three times from one stored snapshot,
\* whose positions and velocities a step does change, within the cache
\* window of the fetch that produced it.
C12_Witness ==
    /\ base.set
    /\ view = "radar"
    /\ Len(renders) = 3
    /\ \E i \in 1..Len(base.df) :
          /\ renders[3][i].x # base.df[i].x
          /\ renders[3][i].vx # base.df[i].vx
          /\ renders[3][i].y # base.df[i].y
          /\ renders[3][i].vy # base.df[i].vy

\* ---------------------------------------------------------------------
\* C13: what a fetch_market_snapshot call returns.

\* The ticker list the last call was given: the default list when tickers
\* is None.
AskedTickers ==
    LET asked == IF request.tickers.given THEN request.tickers.list
                                          ELSE STOCK_TICKERS
    IN  {asked[i] : i \in 1..Len(asked)}

\* C13: in any sequence of fetch_market_snapshot calls (including calls made
\* within the 300-second cache window with different arguments), each call
\* returns data for the ticker list it was given (the default list when
\* tickers is None) and at most max_stocks records.
C13_FetchReturnsWhatWasAsked ==
    request.set =>
        /\ \A i \in 1..Len(request.df) : request.df[i].ticker \in AskedTickers
        /\ Len(request.df) <= request.max_stocks

====
